---- MODULE Spec2Model ----
(***************************************************************************)
(* A model of teaser::DRSCertifier (src/teaser/src/certification.cc).      *)
(*                                                                         *)
(* Numbers.  The code computes in double.  Every input the model draws is  *)
(* a small integer, and every constant of the code is a multiple of 1/4,   *)
(* so every double the code produces is exact.  Matrices whose entries are *)
(* multiples of 1/4 (Q_cost, Q_bar, mu, lambda_bar_init, M) are stored     *)
(* multiplied by 4; matrices of the projection are stored multiplied by    *)
(* Unit(N).  Everything else is stored as it is.                           *)
(*                                                                         *)
(* Matrices are functions [0..rows-1 -> [0..cols-1 -> Int]], indexed as    *)
(* the code indexes them; the columns of src and dst are a sequence of     *)
(* 3-vectors <<a, b, c>>, column k of the code being element k+1.          *)
(***************************************************************************)
EXTENDS Integers, Sequences, FiniteSets, TLC

VARIABLES
  pc,                \* the position of the running call
  build,             \* "debug": assertions abort;  "release": they are compiled out
  junk,              \* the value an out-of-bounds or uninitialized read yields
  inplace,           \* line 257: whether an entry reads its mirror after it was updated
  R_solution, src, dst, theta,          \* the arguments of certify
  cbar2_, max_iterations_,              \* the certifier's configuration
  Npm, theta_prepended, inverse_map, Q_cost, q_solution, x, D_omega,
  Q_bar, x_bar, J_bar, mu, lambda_bar_init, M,
  exceeded_maxiters, suboptim_traj, iter,
  W, W_dual, b_W_dual, pass, W_first, i_diag, W_diag_sum_33

vars == <<pc, build, junk, inplace, R_solution, src, dst, theta, cbar2_,
          max_iterations_, Npm, theta_prepended, inverse_map, Q_cost,
          q_solution, x, D_omega, Q_bar, x_bar, J_bar, mu, lambda_bar_init, M,
          exceeded_maxiters, suboptim_traj, iter,
          W, W_dual, b_W_dual, pass, W_first, i_diag, W_diag_sum_33>>

envVars == <<build, junk, inplace>>
argVars == <<R_solution, src, dst, theta, cbar2_, max_iterations_>>
projVars == <<W, W_dual, b_W_dual, pass, W_first, i_diag, W_diag_sum_33>>
loopVars == <<exceeded_maxiters, suboptim_traj, iter>>

-----------------------------------------------------------------------------
(* Dense matrices and vectors.                                              *)

None == <<>>

Zero(rows, cols) == [r \in 0..(rows - 1) |-> [c \in 0..(cols - 1) |-> 0]]

Rows(A) == Cardinality(DOMAIN A)

Cols(A) == IF Rows(A) = 0 THEN 0 ELSE Cardinality(DOMAIN A[0])

IsSquare(A, n) == Rows(A) = n /\ \A r \in DOMAIN A : Cardinality(DOMAIN A[r]) = n

RECURSIVE SumTo(_, _)
\* f[0] + ... + f[n-1]
SumTo(f, n) == IF n <= 0 THEN 0 ELSE f[n - 1] + SumTo(f, n - 1)

Transpose(A) ==
  [r \in 0..(Cols(A) - 1) |-> [c \in 0..(Rows(A) - 1) |-> A[c][r]]]

MatMul(A, B) ==
  [r \in 0..(Rows(A) - 1) |-> [c \in 0..(Cols(B) - 1) |->
     SumTo([k \in 0..(Cols(A) - 1) |-> A[r][k] * B[k][c]], Cols(A))]]

MatVec(A, v) ==
  [r \in 0..(Rows(A) - 1) |->
     SumTo([k \in 0..(Cols(A) - 1) |-> A[r][k] * v[k]], Cols(A))]

Dot(u, v, n) == SumTo([k \in 0..(n - 1) |-> u[k] * v[k]], n)

Identity(n) == [r \in 0..(n - 1) |-> [c \in 0..(n - 1) |-> IF r = c THEN 1 ELSE 0]]

Scale(s, A) == [r \in DOMAIN A |-> [c \in DOMAIN A[r] |-> s * A[r][c]]]

-----------------------------------------------------------------------------
(* getOmega1 and getBlockDiagOmega (lines 141-161).                         *)

Quat(qx, qy, qz, qw) == [x |-> qx, y |-> qy, z |-> qz, w |-> qw]

FromRows(rows) ==
  [r \in 0..(Len(rows) - 1) |-> [c \in 0..(Len(rows[1]) - 1) |-> rows[r + 1][c + 1]]]

getOmega1(q) ==
  FromRows(<< << q.w, -q.z,  q.y, q.x >>,
              << q.z,  q.w, -q.z, q.y >>,
              <<-q.y,  q.z,  q.w, q.z >>,
              <<-q.z, -q.y, -q.z, q.w >> >>)

\* One copy of getOmega1(q) on each of the n \div 4 diagonal blocks of an
\* n x n matrix of zeros.
getBlockDiagOmega(n, q) ==
  LET omega1 == getOmega1(q)
  IN  [r \in 0..(n - 1) |-> [c \in 0..(n - 1) |->
         IF (r \div 4) = (c \div 4) /\ (r \div 4) < (n \div 4)
         THEN omega1[r % 4][c % 4]
         ELSE 0]]

-----------------------------------------------------------------------------
(* getLinearProjection (lines 376-449).                                     *)

\* C++ integer division truncates toward zero.
IntDiv(a, b) ==
  IF (a >= 0) = (b > 0) THEN (IF a >= 0 THEN a ELSE -a) \div (IF b > 0 THEN b ELSE -b)
  ELSE -((IF a >= 0 THEN a ELSE -a) \div (IF b > 0 THEN b ELSE -b))

RECURSIVE SumSet(_, _)
\* the sum of val[t] over the t of T
SumSet(T, val) ==
  IF T = {} THEN 0
  ELSE LET t == CHOOSE u \in T : TRUE IN val[t] + SumSet(T \ {t}, val)

\* Eigen's setFromTriplets: an entry is the sum of the triplets that name it.
\* The triplets named by T are given by their rows, columns and values.
setFromTriplets(rows, cols, T, trip) ==
  [r \in 0..(rows - 1) |-> [c \in 0..(cols - 1) |->
     SumSet({t \in T : trip.row[t] = r /\ trip.col[t] = c}, trip.val)]]

\* lines 390-397: the pairs i < j < n are numbered in the order of the loops
mat2vec(n, i, j) ==
  Cardinality({p \in (0..(n - 1)) \X (0..(n - 1)) :
                 /\ p[1] < p[2]
                 /\ (p[1] < i \/ (p[1] = i /\ p[2] < j))})

\* lines 382-384: y and x are declared int
LinearProjection_y(N0) == IntDiv(1, 2 * N0 + 6)

LinearProjection_x(N0) == (N0 + 1) * LinearProjection_y(N0)

\* The triplets of lines 407-447, named <<i, j, p, l>>: l = 1 for the first
\* loop over p, l = 2 for the second, l = 0 (i = j = p) for a diagonal entry.
LinearProjectionTriplets(th) ==
  LET N0 == Rows(th) - 1
      N == N0 + 1
      y == LinearProjection_y(N0)
      nr_vals == IntDiv(N * (N - 1), 2)
      Off == {t \in (0..(N - 1)) \X (0..(N - 1)) \X (0..(N - 1)) \X {1, 2} :
                t[1] < t[2] /\ t[3] # t[1] /\ t[3] # t[2]}
      Diag == {<<d, d, d, 0>> : d \in 0..(nr_vals - 1)}
      var_2_idx(i, j, p, l) ==
        IF l = 1 THEN (IF p < i THEN mat2vec(N, p, i) ELSE mat2vec(N, i, p))
                 ELSE (IF p < j THEN mat2vec(N, p, j) ELSE mat2vec(N, j, p))
      entry_val(i, j, p, l) ==
        IF l = 1 THEN (IF p < i THEN y * th[j] * th[p] ELSE (-y) * th[j] * th[p])
                 ELSE (IF p < j THEN (-y) * th[i] * th[p] ELSE y * th[i] * th[p])
      T == Off \cup Diag
  IN  [row |-> [t \in T |-> IF t[4] = 0 THEN t[1] ELSE var_2_idx(t[1], t[2], t[3], t[4])],
       col |-> [t \in T |-> IF t[4] = 0 THEN t[1] ELSE mat2vec(N, t[1], t[2])],
       val |-> [t \in T |-> IF t[4] = 0 THEN LinearProjection_x(N0)
                                        ELSE entry_val(t[1], t[2], t[3], t[4])]]

getLinearProjection(th) ==
  LET N == Rows(th)
      nr_vals == IntDiv(N * (N - 1), 2)
      trip == LinearProjectionTriplets(th)
  IN  setFromTriplets(nr_vals, nr_vals, DOMAIN trip.row, trip)

-----------------------------------------------------------------------------
(* getQCost (lines 74-139).  The result is stored multiplied by 4.          *)

\* PTable with the sign of one entry of its third row flipped
PTableMutant ==
  << << 1, 0, 0, 0, 0,-1, 0, 0, 0, 0,-1, 0, 0, 0, 0, 1>>,
     << 0, 1, 0, 0, 1, 0, 0, 0, 0, 0, 0, 1, 0, 0, 1, 0>>,
     << 0, 0, 1, 0, 0, 0, 0,-1,-1, 0, 0, 0, 0,-1, 0, 0>>,
     << 0, 1, 0, 0, 1, 0, 0, 0, 0, 0, 0,-1, 0, 0,-1, 0>>,
     <<-1, 0, 0, 0, 0, 1, 0, 0, 0, 0,-1, 0, 0, 0, 0, 1>>,
     << 0, 0, 0, 1, 0, 0, 1, 0, 0, 1, 0, 0, 1, 0, 0, 0>>,
     << 0, 0, 1, 0, 0, 0, 0, 1, 1, 0, 0, 0, 0, 1, 0, 0>>,
     << 0, 0, 0,-1, 0, 0, 1, 0, 0, 1, 0, 0,-1, 0, 0, 0>>,
     <<-1, 0, 0, 0, 0,-1, 0, 0, 0, 0, 1, 0, 0, 0, 0, 1>> >>

\* lines 81-91
PTable ==
  << << 1, 0, 0, 0, 0,-1, 0, 0, 0, 0,-1, 0, 0, 0, 0, 1>>,
     << 0, 1, 0, 0, 1, 0, 0, 0, 0, 0, 0, 1, 0, 0, 1, 0>>,
     << 0, 0, 1, 0, 0, 0, 0,-1, 1, 0, 0, 0, 0,-1, 0, 0>>,
     << 0, 1, 0, 0, 1, 0, 0, 0, 0, 0, 0,-1, 0, 0,-1, 0>>,
     <<-1, 0, 0, 0, 0, 1, 0, 0, 0, 0,-1, 0, 0, 0, 0, 1>>,
     << 0, 0, 0, 1, 0, 0, 1, 0, 0, 1, 0, 0, 1, 0, 0, 0>>,
     << 0, 0, 1, 0, 0, 0, 0, 1, 1, 0, 0, 0, 0, 1, 0, 0>>,
     << 0, 0, 0,-1, 0, 0, 1, 0, 0, 1, 0, 0,-1, 0, 0, 0>>,
     <<-1, 0, 0, 0, 0,-1, 0, 0, 0, 0, 1, 0, 0, 0, 0, 1>> >>

squaredNorm(v) == v[1] * v[1] + v[2] * v[2] + v[3] * v[3]

\* lines 107-110: temp_A = v2k * v1k', flattened column by column, times P',
\* reshaped column by column into 4 x 4
QCost_P_k(P, v1k, v2k) ==
  LET temp_map2vec == [m \in 0..8 |-> v2k[(m % 3) + 1] * v1k[(m \div 3) + 1]]
      temp_B == [n \in 0..15 |->
                   SumTo([m \in 0..8 |-> P[m + 1][n + 1] * temp_map2vec[m]], 9)]
  IN  [r \in 0..3 |-> [c \in 0..3 |-> temp_B[r + 4 * c]]]

\* lines 113-117, times 4: -0.5 * P_k + ck / 2 * I, ck = 0.5 * (|v1k|^2 + |v2k|^2 - cbar2)
QCost_Q1_block(P, v1k, v2k, cbar2) ==
  LET P_k == QCost_P_k(P, v1k, v2k)
      ck2 == squaredNorm(v1k) + squaredNorm(v2k) - cbar2
  IN  [r \in 0..3 |-> [c \in 0..3 |-> (-2) * P_k[r][c] + (IF r = c THEN ck2 ELSE 0)]]

\* lines 133-135, times 4: -P_k + ck * I, ck = 0.5 * (|v1k|^2 + |v2k|^2 + cbar2)
QCost_Q2_block(P, v1k, v2k, cbar2) ==
  LET P_k == QCost_P_k(P, v1k, v2k)
      ck2 == squaredNorm(v1k) + squaredNorm(v2k) + cbar2
  IN  [r \in 0..3 |-> [c \in 0..3 |-> (-4) * P_k[r][c] + (IF r = c THEN 2 * ck2 ELSE 0)]]

\* 4 * (Q1 + Q2).  A column of v2 past its end is not read here: the callers
\* of the model's getQCost pass v2 with at least as many columns as v1.
getQCost(v1, v2, cbar2) ==
  LET N == Len(v1)
      n == 4 + 4 * N
  IN  [r \in 0..(n - 1) |-> [c \in 0..(n - 1) |->
         LET br == r \div 4
             bc == c \div 4
         IN  IF br = 0 /\ bc >= 1
             THEN QCost_Q1_block(PTable, v1[bc], v2[bc], cbar2)[r % 4][c % 4]
             ELSE IF bc = 0 /\ br >= 1
             THEN QCost_Q1_block(PTable, v1[br], v2[br], cbar2)[r % 4][c % 4]
             ELSE IF br = bc /\ br >= 1
             THEN QCost_Q2_block(PTable, v1[br], v2[br], cbar2)[r % 4][c % 4]
             ELSE 0]]

-----------------------------------------------------------------------------
(* getLambdaGuess (lines 288-374).  The result is stored multiplied by 4.   *)

\* teaser::hatmap (teaser/linalg.h): the skew-symmetric matrix of a 3-vector
hatmap(v) ==
  FromRows(<< <<    0, -v[3],  v[2] >>,
              << v[3],     0, -v[1] >>,
              <<-v[2],  v[1],     0 >> >>)

\* a 3 x 3 matrix times a 3-vector
Mat3Vec(A, v) ==
  << A[0][0] * v[1] + A[0][1] * v[2] + A[0][2] * v[3],
     A[1][0] * v[1] + A[1][1] * v[2] + A[1][2] * v[3],
     A[2][0] * v[1] + A[2][1] * v[2] + A[2][2] * v[3] >>

Vec3Sub(u, v) == << u[1] - v[1], u[2] - v[2], u[3] - v[3] >>

Vec3Dot(u, v) == u[1] * v[1] + u[2] * v[2] + u[3] * v[3]

\* lines 315 and 333: R' * (dst_i - R * src_i)
LambdaGuess_residual(R, s, d) == Mat3Vec(Transpose(R), Vec3Sub(d, Mat3Vec(R, s)))

\* 4 * current_block after one pass of the loop body (lines 312-349).
\* current_block is declared before the loop and starts as zero; the body
\* writes (3,3), the top-left 3 x 3, then topLeftCorner<3,1> (column 0, rows
\* 0..2) and bottomLeftCorner<1,3> (row 3, columns 0..2); rows 0..2 of column
\* 3 are never written.
LambdaGuess_current_block(R, inlier, s, d, cbar2) ==
  LET xi == LambdaGuess_residual(R, s, d)
      hs == hatmap(s)
      hxi == hatmap(xi)
      hshs == MatMul(hs, hs)
      hxihs == MatMul(hxi, hs)
      n2 == squaredNorm(xi)
      k33 == IF inlier THEN (-3) * n2 - cbar2 ELSE (-1) * n2 - 3 * cbar2
      kI == IF inlier THEN (-3) * n2 - cbar2 ELSE (-1) * n2 - cbar2
      E == [r \in 0..2 |-> [c \in 0..2 |->
              4 * hshs[r][c] + 2 * hxihs[r][c] + 2 * xi[r + 1] * s[c + 1]
              + (IF r = c THEN (-2) * Vec3Dot(s, xi) + kI ELSE 0)]]
      hv == Mat3Vec(hxi, s)
      vec == IF inlier THEN << (-6) * hv[1], (-6) * hv[2], (-6) * hv[3] >>
                       ELSE << (-2) * hv[1], (-2) * hv[2], (-2) * hv[3] >>
  IN  [r \in 0..3 |-> [c \in 0..3 |->
         IF r = 3 /\ c = 3 THEN k33
         ELSE IF r = 3 THEN vec[c + 1]
         ELSE IF c = 0 THEN vec[r + 1]
         ELSE IF c = 3 THEN 0
         ELSE E[r][c]]]

\* column i of a 3 x n matrix; a column past the end is an out-of-bounds read
ColumnAt(m, i, jk) == IF i < Len(m) THEN m[i + 1] ELSE << jk, jk, jk >>

\* line 310: the loop runs over i < K = theta.size()
LambdaGuessColumns(th) == 0..(Rows(th) - 1)

\* line 313: theta(1, i) names row 1 of a matrix of one row, K + i places from
\* the start of its K values: an out-of-bounds read whatever i
LambdaGuess_inlier(th, i, jk) == jk > 0

\* The triplets of lines 355-359 are named <<i, row, col>>, those of lines
\* 366-370 <<-1, row, col>>.
getLambdaGuess(R, th, s, d, cbar2, jk) ==
  LET K == Rows(th)
      n == 4 * K + 4
      block == [i \in LambdaGuessColumns(th) |->
                  LambdaGuess_current_block(R, LambdaGuess_inlier(th, i, jk),
                                            ColumnAt(s, i, jk), ColumnAt(d, i, jk), cbar2)]
      topleft_block == [r \in 0..3 |-> [c \in 0..3 |->
                          SumTo([i \in LambdaGuessColumns(th) |-> block[i][r][c]], K)]]
      T == (LambdaGuessColumns(th) \cup {-1}) \X (0..3) \X (0..3)
      trip == [row |-> [t \in T |-> IF t[1] = -1 THEN t[2] ELSE t[1] * 4 + t[2]],
               col |-> [t \in T |-> IF t[1] = -1 THEN t[3] ELSE t[1] * 4 + t[3]],
               val |-> [t \in T |-> IF t[1] = -1 THEN topleft_block[t[2]][t[3]]
                                                ELSE -block[t[1]][t[2]][t[3]]]]
  IN  setFromTriplets(n, n, T, trip)

-----------------------------------------------------------------------------
(* What a specification does not use stays as it starts.                    *)

EnvQuiet == build = "release" /\ junk = 0 /\ inplace = FALSE

ArgsIdle ==
  /\ R_solution = None /\ src = None /\ dst = None /\ theta = None
  /\ cbar2_ = 0 /\ max_iterations_ = 0

RotatedIdle ==
  /\ x = None /\ Q_bar = None /\ x_bar = None /\ J_bar = None
  /\ mu = 0 /\ lambda_bar_init = None /\ M = None

LoopIdle == exceeded_maxiters = FALSE /\ suboptim_traj = <<>> /\ iter = 0

ProjIdle ==
  /\ W = None /\ W_dual = None /\ b_W_dual = None /\ pass = 0
  /\ W_first = None /\ i_diag = 0 /\ W_diag_sum_33 = None

-----------------------------------------------------------------------------
(* A call of getBlockDiagOmega.                                             *)

QMax == 1
MaxBlocks == 2

InitOmega ==
  /\ pc = "omega_call"
  /\ q_solution \in {Quat(a, b, c, d) : a \in -QMax..QMax, b \in -QMax..QMax,
                                        c \in -QMax..QMax, d \in -QMax..QMax}
  /\ Npm \in {4 * b : b \in 1..MaxBlocks}
  /\ D_omega = None
  /\ theta_prepended = None /\ inverse_map = None /\ Q_cost = None
  /\ EnvQuiet /\ ArgsIdle /\ RotatedIdle /\ LoopIdle /\ ProjIdle

BlockDiagOmega ==
  /\ pc = "omega_call"
  /\ D_omega' = getBlockDiagOmega(Npm, q_solution)
  /\ pc' = "omega_done"
  /\ UNCHANGED <<envVars, argVars, projVars, loopVars, Npm, theta_prepended,
                 inverse_map, Q_cost, q_solution, x, Q_bar, x_bar, J_bar, mu,
                 lambda_bar_init, M>>

NextOmega == BlockDiagOmega

SpecOmega == InitOmega /\ [][NextOmega]_vars

(* C9: the quaternion block embedding is orthogonal up to scale: for every *)
(* q = (x, y, z, w) and every Npm divisible by 4, the D built by           *)
(* getBlockDiagOmega(Npm, q) satisfies D' * D = (x^2 + y^2 + z^2 + w^2) *  *)
(* Identity.                                                               *)
C9_OrthogonalUpToScale ==
  pc = "omega_done" =>
    LET q == q_solution
        norm2 == q.x * q.x + q.y * q.y + q.z * q.z + q.w * q.w
    IN  MatMul(Transpose(D_omega), D_omega) = Scale(norm2, Identity(Npm))

-----------------------------------------------------------------------------
(* A call of getLinearProjection.                                           *)

MaxPairN == 4

SignVectors(n) == [0..(n - 1) -> {-1, 1}]

InitLinProj ==
  /\ pc = "linproj_call"
  /\ \E N \in 2..MaxPairN : theta_prepended \in SignVectors(N + 1)
  /\ inverse_map = None
  /\ Npm = 0 /\ q_solution = None /\ D_omega = None /\ Q_cost = None
  /\ EnvQuiet /\ ArgsIdle /\ RotatedIdle /\ LoopIdle /\ ProjIdle

LinearProjection ==
  /\ pc = "linproj_call"
  /\ inverse_map' = getLinearProjection(theta_prepended)
  /\ pc' = "linproj_done"
  /\ UNCHANGED <<envVars, argVars, projVars, loopVars, Npm, theta_prepended,
                 D_omega, Q_cost, q_solution, x, Q_bar, x_bar, J_bar, mu,
                 lambda_bar_init, M>>

NextLinProj == LinearProjection

SpecLinProj == InitLinProj /\ [][NextLinProj]_vars

(* C10: for every N >= 2 and every theta_prepended of length N+1 with      *)
(* entries of absolute value 1, getLinearProjection returns an M x M       *)
(* matrix, M = N(N+1)/2, whose diagonal entries equal (N+1)/(2N+6), whose  *)
(* entry coupling two distinct index pairs that share exactly one index is *)
(* +theta_a*theta_b/(2N+6) or -theta_a*theta_b/(2N+6), and which is not    *)
(* the zero matrix.                                                        *)
C10_ProjectorEntries ==
  pc = "linproj_done" =>
    LET th == theta_prepended
        N == Rows(th) - 1
        Mdim == (N * (N + 1)) \div 2
        Pairs == {p \in (0..N) \X (0..N) : p[1] < p[2]}
        idx(p) == mat2vec(N + 1, p[1], p[2])
        own(p, r) == CHOOSE a \in {p[1], p[2]} : a \notin {r[1], r[2]}
    IN  /\ IsSquare(inverse_map, Mdim)
        /\ \A d \in 0..(Mdim - 1) : inverse_map[d][d] * (2 * N + 6) = N + 1
        /\ \A p \in Pairs : \A r \in Pairs :
             Cardinality({p[1], p[2]} \cap {r[1], r[2]}) = 1 =>
               LET v == inverse_map[idx(p)][idx(r)] * (2 * N + 6)
                   t == th[own(p, r)] * th[own(r, p)]
               IN  v = t \/ v = -t
        /\ \E r \in 0..(Mdim - 1) : \E c \in 0..(Mdim - 1) : inverse_map[r][c] # 0

-----------------------------------------------------------------------------
(* A call of getQCost.                                                      *)

MaxPoints == 2

PointSet == { <<1, 2, 3>>, <<0, -1, 2>>, <<-2, 1, 0>> }

Cbar2Set == {0, 1, 3}

PointSeqs(n) == [1..n -> PointSet]

InitQCost ==
  /\ pc = "qcost_call"
  /\ \E N \in 1..MaxPoints : src \in PointSeqs(N) /\ dst \in PointSeqs(N)
  /\ cbar2_ \in Cbar2Set
  /\ Q_cost = None
  /\ R_solution = None /\ theta = None /\ max_iterations_ = 0
  /\ Npm = 0 /\ q_solution = None /\ D_omega = None
  /\ theta_prepended = None /\ inverse_map = None
  /\ EnvQuiet /\ RotatedIdle /\ LoopIdle /\ ProjIdle

QCost ==
  /\ pc = "qcost_call"
  /\ Q_cost' = getQCost(src, dst, cbar2_)
  /\ pc' = "qcost_done"
  /\ UNCHANGED <<envVars, argVars, projVars, loopVars, Npm, theta_prepended,
                 inverse_map, D_omega, q_solution, x, Q_bar, x_bar, J_bar, mu,
                 lambda_bar_init, M>>

NextQCost == QCost

SpecQCost == InitQCost /\ [][NextQCost]_vars

(* C5: for every N >= 1, every pair of 3 x N point sets v1, v2 and every   *)
(* cbar2, the matrix Q produced by getQCost is exactly symmetric           *)
(* (Q[r][c] = Q[c][r] for all r, c in 0..4N+3) and its (0,0) 4 x 4 block   *)
(* is identically zero.                                                    *)
C5_QCostSymmetric ==
  pc = "qcost_done" =>
    LET n == 4 * Len(src) + 4
    IN  /\ IsSquare(Q_cost, n)
        /\ \A r \in 0..(n - 1) : \A c \in 0..(n - 1) : Q_cost[r][c] = Q_cost[c][r]
        /\ \A r \in 0..3 : \A c \in 0..3 : Q_cost[r][c] = 0

\* getQCost has run on two correspondences and has written a cross block and
\* a diagonal block with entries off their diagonals.
C5_Witness ==
  /\ pc = "qcost_done"
  /\ Len(src) = 2
  /\ \E r \in 0..3 : \E c \in 4..11 : (c % 4) # r /\ Q_cost[r][c] # 0
  /\ \E r \in 8..11 : \E c \in 8..11 : r # c /\ Q_cost[r][c] # 0

-----------------------------------------------------------------------------
(* certify (lines 12-72).                                                   *)
(*                                                                         *)
(* A debug build stops at the first failed assertion (pc = "aborted").  A  *)
(* release build has none: a read past a buffer or of an uninitialized     *)
(* entry yields junk, and where the code writes past a buffer the call     *)
(* either dies (pc = "undefined") or goes on.                              *)

MaxCorr == 2
MaxIters == 2

CertPoints == { <<1, 2, 3>>, <<0, -1, 2>> }

JunkSet == {-1, 2}

RotationSet ==
  { FromRows(<< << 1, 0, 0>>, <<0,  1, 0>>, <<0, 0, 1>> >>),
    FromRows(<< <<-1, 0, 0>>, <<0, -1, 0>>, <<0, 0, 1>> >>) }

\* lines 33-34: Eigen::Quaterniond(R), normalized; on the rotations of
\* RotationSet the conversion is exact
QuaternionOf(R) == IF R[0][0] = 1 THEN Quat(0, 0, 0, 1) ELSE Quat(0, 0, 1, 0)

\* line 22: bool cast to double is 1.0 for true and 0.0 for false
cast_double(b) == IF b THEN 1 ELSE 0

\* line 22: the vector the comma initializer describes
Prepended(th) == [k \in 0..Len(th) |-> IF k = 0 THEN 1 ELSE cast_double(th[k])]

\* teaser::vectorKron (teaser/linalg.h): output[i * len(v2) + j] = v1[i] * v2[j]
vectorKron(v1, v2) ==
  LET n2 == Rows(v2)
  IN  [k \in 0..(Rows(v1) * n2 - 1) |-> v1[k \div n2] * v2[k % n2]]

\* lines 35-36
q_solution_vec(q) ==
  [k \in 0..3 |-> IF k = 0 THEN q.x ELSE IF k = 1 THEN q.y ELSE IF k = 2 THEN q.z ELSE q.w]

\* an entry of a vector, junk past its end
At(v, k, jk) == IF k \in DOMAIN v THEN v[k] ELSE jk

\* an entry of a matrix, junk outside it
At2(A, r, c, jk) == IF r \in DOMAIN A /\ c \in DOMAIN A[r] THEN A[r][c] ELSE jk

\* A * v over the columns of A, whatever the length of v
MatVecAny(A, v, jk) ==
  [r \in 0..(Rows(A) - 1) |->
     SumTo([k \in 0..(Cols(A) - 1) |-> A[r][k] * At(v, k, jk)], Cols(A))]

InitCertify ==
  /\ pc = "certify"
  /\ build \in {"debug", "release"}
  /\ junk \in JunkSet
  /\ inplace = FALSE
  /\ R_solution \in RotationSet
  /\ \E Ns \in 0..MaxCorr : src \in [1..Ns -> CertPoints]
  /\ \E Nd \in 0..MaxCorr : dst \in [1..Nd -> CertPoints]
  /\ \E Nt \in 0..MaxCorr : theta \in [1..Nt -> BOOLEAN]
  /\ cbar2_ = 1
  /\ max_iterations_ \in 0..MaxIters
  /\ Npm = 0 /\ theta_prepended = None /\ inverse_map = None /\ Q_cost = None
  /\ q_solution = None /\ D_omega = None
  /\ RotatedIdle /\ LoopIdle /\ ProjIdle

\* lines 17-22.  theta_prepended is declared without a size and the comma
\* initializer does not resize: it writes past an empty vector.
Prepend ==
  /\ pc = "certify"
  /\ Npm' = 4 + 4 * Len(src)
  /\ \/ /\ build = "debug"
        /\ pc' = "aborted"
        /\ UNCHANGED theta_prepended
     \/ /\ build = "release"
        /\ pc' = "undefined"
        /\ UNCHANGED theta_prepended
     \/ /\ build = "release"
        /\ theta_prepended' = Prepended(theta)
        /\ pc' = "L26"
  /\ UNCHANGED <<envVars, argVars, projVars, loopVars, inverse_map, Q_cost,
                 q_solution, x, D_omega, Q_bar, x_bar, J_bar, mu,
                 lambda_bar_init, M>>

\* lines 25-26
CallLinearProjection ==
  /\ pc = "L26"
  /\ inverse_map' = getLinearProjection(theta_prepended)
  /\ pc' = "L30"
  /\ UNCHANGED <<envVars, argVars, projVars, loopVars, Npm, theta_prepended,
                 Q_cost, q_solution, x, D_omega, Q_bar, x_bar, J_bar, mu,
                 lambda_bar_init, M>>

\* lines 29-30; getQCost reads column k of dst for every k < src.cols()
CallQCost ==
  /\ pc = "L30"
  /\ Q_cost' = getQCost(src, [k \in 1..Len(src) |-> ColumnAt(dst, k - 1, junk)], cbar2_)
  /\ pc' = "L33"
  /\ UNCHANGED <<envVars, argVars, projVars, loopVars, Npm, theta_prepended,
                 inverse_map, q_solution, x, D_omega, Q_bar, x_bar, J_bar, mu,
                 lambda_bar_init, M>>

\* lines 33-41
Lift ==
  /\ pc = "L33"
  /\ q_solution' = QuaternionOf(R_solution)
  /\ x' = LET q == QuaternionOf(R_solution)
          IN  vectorKron(theta_prepended, q_solution_vec(q))
  /\ pc' = "L45"
  /\ UNCHANGED <<envVars, argVars, projVars, loopVars, Npm, theta_prepended,
                 inverse_map, Q_cost, D_omega, Q_bar, x_bar, J_bar, mu,
                 lambda_bar_init, M>>

\* lines 44-49.  J_bar is declared with its size and never zeroed: only its
\* (0,0) block is written.
Rotate ==
  /\ pc = "L45"
  /\ D_omega' = getBlockDiagOmega(Npm, q_solution)
  /\ Q_bar' = LET D == getBlockDiagOmega(Npm, q_solution)
              IN  MatMul(Transpose(D), MatMul(Q_cost, D))
  /\ x_bar' = MatVecAny(Transpose(getBlockDiagOmega(Npm, q_solution)), x, junk)
  /\ J_bar' = [r \in 0..(Npm - 1) |-> [c \in 0..(Npm - 1) |->
                 IF r < 4 /\ c < 4 THEN (IF r = c THEN 1 ELSE 0) ELSE junk]]
  /\ pc' = "L53"
  /\ UNCHANGED <<envVars, argVars, projVars, loopVars, Npm, theta_prepended,
                 inverse_map, Q_cost, q_solution, x, mu, lambda_bar_init, M>>

\* line 53, times 4
Primal ==
  /\ pc = "L53"
  /\ mu' = LET Qx == MatVecAny(Q_cost, x, junk)
           IN  SumTo([k \in 0..(Rows(x) - 1) |-> x[k] * At(Qx, k, junk)], Rows(x))
  /\ pc' = "L57"
  /\ UNCHANGED <<envVars, argVars, projVars, loopVars, Npm, theta_prepended,
                 inverse_map, Q_cost, q_solution, x, D_omega, Q_bar, x_bar,
                 J_bar, lambda_bar_init, M>>

\* lines 56-57: the theta passed is theta_prepended
CallLambdaGuess ==
  /\ pc = "L57"
  /\ lambda_bar_init' = getLambdaGuess(R_solution, theta_prepended, src, dst, cbar2_, junk)
  /\ pc' = "L60"
  /\ UNCHANGED <<envVars, argVars, projVars, loopVars, Npm, theta_prepended,
                 inverse_map, Q_cost, q_solution, x, D_omega, Q_bar, x_bar,
                 J_bar, mu, M>>

\* line 60, times 4.  When lambda_bar_init has not the size of Q_bar the
\* subtraction runs over a matrix of another size.
Residual ==
  /\ pc = "L60"
  /\ \/ /\ Rows(lambda_bar_init) # Npm
        /\ pc' = "undefined"
        /\ UNCHANGED M
     \/ /\ M' = [r \in 0..(Npm - 1) |-> [c \in 0..(Npm - 1) |->
                   Q_bar[r][c] - mu * J_bar[r][c] - At2(lambda_bar_init, r, c, junk)]]
        /\ pc' = "L63"
  /\ UNCHANGED <<envVars, argVars, projVars, loopVars, Npm, theta_prepended,
                 inverse_map, Q_cost, q_solution, x, D_omega, Q_bar, x_bar,
                 J_bar, mu, lambda_bar_init>>

\* lines 62-68: the flag, the trajectory and the loop counter
LoopInit ==
  /\ pc = "L63"
  /\ exceeded_maxiters' = FALSE
  /\ suboptim_traj' = <<>>
  /\ iter' = 0
  /\ pc' = "loop"
  /\ UNCHANGED <<envVars, argVars, projVars, Npm, theta_prepended, inverse_map,
                 Q_cost, q_solution, x, D_omega, Q_bar, x_bar, J_bar, mu,
                 lambda_bar_init, M>>

\* lines 68-70: one pass of the loop, whose body is empty
LoopIter ==
  /\ pc = "loop"
  /\ iter < max_iterations_
  /\ iter' = iter + 1
  /\ UNCHANGED <<pc, envVars, argVars, projVars, Npm, theta_prepended,
                 inverse_map, Q_cost, q_solution, x, D_omega, Q_bar, x_bar,
                 J_bar, mu, lambda_bar_init, M, exceeded_maxiters, suboptim_traj>>

\* lines 68-72: the loop ends and control reaches the closing brace of a
\* function that returns a CertificationResult: there is no return statement
LoopExit ==
  /\ pc = "loop"
  /\ iter >= max_iterations_
  /\ pc' = "no_return"
  /\ UNCHANGED <<envVars, argVars, projVars, loopVars, Npm, theta_prepended,
                 inverse_map, Q_cost, q_solution, x, D_omega, Q_bar, x_bar,
                 J_bar, mu, lambda_bar_init, M>>

NextCertify ==
  \/ Prepend \/ CallLinearProjection \/ CallQCost \/ Lift \/ Rotate \/ Primal
  \/ CallLambdaGuess \/ Residual \/ LoopInit \/ LoopIter \/ LoopExit

SpecCertify == InitCertify /\ [][NextCertify]_vars

-----------------------------------------------------------------------------
(* getOptimalDualProjection and getBlockRowSum (lines 163-286, 451-466).    *)
(* The matrices W and W_dual and the rows of b_W are stored multiplied by  *)
(* Unit(N), so that the halves of line 246 and the mean of line 275, taken *)
(* twice over, are whole numbers.                                          *)

Unit(N) == 4 * (N + 1) * (N + 1)

\* the pair (i, j) that the loops of lines 180-184 reach with count = cnt
PairAt(n, cnt) ==
  CHOOSE p \in (0..(n - 1)) \X (0..(n - 1)) : p[1] < p[2] /\ mat2vec(n, p[1], p[2]) = cnt

\* lines 175-219: row count of b_W.  temp_A is assigned twice (lines 194 and
\* 198) and holds [-1 theta_ij]; temp_B is never assigned; col_idx_end is
\* i * 4 + 3 (line 187).
Projection_b_W(Wm, th, nr_off_diag_blks, jk) ==
  LET N == IntDiv(Rows(Wm), 4) - 1
  IN  [cnt \in 0..(nr_off_diag_blks - 1) |-> [c \in 0..2 |->
         LET p == PairAt(N + 1, cnt)
             i == p[1]
             j == p[2]
             row_idx_start == i * 4
             row_idx_end == i * 4 + 3
             col_idx_start == j * 4
             col_idx_end == i * 4 + 3
             theta_ij == th[i] * th[j]
             temp_A == << -1, theta_ij >>
             temp_B == << jk, jk >>
             temp_C == Wm[row_idx_end][row_idx_start + c]
             temp_D == Wm[col_idx_end][row_idx_start + c]
             temp_E == Wm[row_idx_end][col_idx_start + c]
             temp_F == Wm[col_idx_end][col_idx_start + c]
         IN  temp_A[1] * temp_C + temp_A[2] * temp_D
             + temp_B[1] * temp_E + temp_B[2] * temp_F]]

\* lines 242-248: W_dual_ij
Projection_W_dual_ij(Wm, bd, i, j) ==
  LET N == IntDiv(Rows(Wm), 4) - 1
      count == mat2vec(N + 1, i, j)
  IN  [r \in 0..3 |-> [c \in 0..3 |->
         IF r < 3 /\ c = 3 THEN bd[count][r]
         ELSE IF r = 3 /\ c < 3 THEN -bd[count][c]
         ELSE (Wm[4 * i + r][4 * j + c] - Wm[4 * i + c][4 * j + r]) \div 2]]

\* lines 223-256.  W_dual is zeroed and then resized, which leaves what the
\* new buffer held; the loop writes block rows 0..N-1 and not block row N.
\* W_dual_i is zeroed once, before the loop: in block row i its blocks j <= i
\* are those written when i was smaller.
Projection_off_diagonal(Wm, bd, jk) ==
  LET N == IntDiv(Rows(Wm), 4) - 1
      n == Rows(Wm)
  IN  [R \in 0..(n - 1) |-> [C \in 0..(n - 1) |->
         LET i == R \div 4
             j == C \div 4
         IN  IF i = N THEN jk * Unit(N)
             ELSE IF j > i THEN Projection_W_dual_ij(Wm, bd, i, j)[R % 4][C % 4]
             ELSE IF j >= 1 THEN Projection_W_dual_ij(Wm, bd, j - 1, j)[R % 4][C % 4]
             ELSE 0]]

\* line 257: *W_dual = *W_dual + W_dual->transpose().  The sum is evaluated
\* entry by entry, column by column, into the matrix it reads: with lazy set
\* an entry above the diagonal reads its mirror after the mirror was updated.
Projection_symmetrize(U, lazy) ==
  [R \in DOMAIN U |-> [C \in DOMAIN U |->
     IF lazy /\ R < C THEN U[R][C] + (U[C][R] + U[R][C])
     ELSE U[R][C] + U[C][R]]]

\* lines 451-466: start_idx is row (line 462)
getBlockRowSum(A, row, th) ==
  LET unit == [k \in 0..3 |-> IF k = 3 THEN 1 ELSE 0]
      vector == vectorKron(th, unit)
      start_idx == row
  IN  [r \in 0..3 |->
         SumTo([c \in 0..(Cols(A) - 1) |-> A[start_idx + r][c] * vector[c]], Cols(A))]

\* lines 264-271: W_ii
Projection_W_ii(Wm, Wd, i, th) ==
  LET sum == getBlockRowSum(Wd, i, th)
  IN  [r \in 0..3 |-> [c \in 0..3 |->
         IF r = 3 THEN (-th[i]) * sum[c]
         ELSE IF c = 3 THEN (-th[i]) * sum[r]
         ELSE Wm[4 * i + r][4 * i + c]]]

\* line 272
Projection_set_diagonal(Wd, i, W_ii) ==
  [R \in DOMAIN Wd |-> [C \in DOMAIN Wd |->
     IF R \div 4 = i /\ C \div 4 = i THEN W_ii[R % 4][C % 4] ELSE Wd[R][C]]]

\* lines 275-285
Projection_subtract_mean(Wd, sum33) ==
  LET N == IntDiv(Rows(Wd), 4) - 1
  IN  [R \in DOMAIN Wd |-> [C \in DOMAIN Wd |->
         IF R \div 4 = C \div 4 /\ R % 4 < 3 /\ C % 4 < 3
         THEN Wd[R][C] - (sum33[R % 4][C % 4] \div (N + 1))
         ELSE Wd[R][C]]]

-----------------------------------------------------------------------------
(* Calls of getOptimalDualProjection: on a symmetric W and then on its own *)
(* output (R_solution = None), or once on the initial guess that certify   *)
(* builds from its arguments.  The caller passes a new matrix as W_dual.   *)

MaxProjN == 3
MaxCoef == 1
MaxGuessN == 2

\* a symmetric n x n matrix of whole numbers between -2 and 2
SymW(p, q, n) ==
  [r \in 0..(n - 1) |-> [c \in 0..(n - 1) |->
     LET a == IF r < c THEN r ELSE c
         b == IF r < c THEN c ELSE r
     IN  ((p * a + q * b + a * b) % 5) - 2]]

TwiceMode == R_solution = None

InitProject ==
  /\ pc = "project"
  /\ build \in {"debug", "release"}
  /\ junk \in {0, 1}
  /\ inplace \in (IF build = "debug" THEN {FALSE} ELSE BOOLEAN)
  /\ \/ /\ R_solution = None /\ src = None /\ dst = None /\ theta = None
        /\ cbar2_ = 0
        /\ \E N \in 2..MaxProjN :
             /\ theta_prepended \in {th \in SignVectors(N + 1) : th[0] = 1}
             /\ \E p \in 0..MaxCoef : \E q \in 0..MaxCoef :
                  W = Scale(Unit(N), SymW(p, q, 4 * (N + 1)))
     \/ /\ R_solution \in RotationSet
        /\ cbar2_ = 1
        /\ \E N \in 2..MaxGuessN :
             /\ src \in [1..N -> CertPoints]
             /\ dst \in [1..N -> CertPoints]
             /\ theta \in [1..N -> BOOLEAN]
             /\ theta_prepended = Prepended(theta)
             /\ W = Scale((N + 1) * (N + 1),
                          getLambdaGuess(R_solution, Prepended(theta), src, dst, cbar2_, junk))
  /\ inverse_map = getLinearProjection(theta_prepended)
  /\ max_iterations_ = 0
  /\ pass = 1 /\ W_dual = None /\ b_W_dual = None /\ W_first = None
  /\ i_diag = 0 /\ W_diag_sum_33 = None
  /\ Npm = 0 /\ Q_cost = None /\ q_solution = None /\ D_omega = None
  /\ RotatedIdle /\ LoopIdle

certVars == <<Npm, theta_prepended, inverse_map, Q_cost, q_solution, x, D_omega,
              Q_bar, x_bar, J_bar, mu, lambda_bar_init, M>>

\* lines 168-220.  b_W has A_inv.rows() rows and one row is written for each
\* pair i < j <= N: when theta_prepended or A_inv has not the size of W the
\* assertion of line 170 fails, or the rows are written past b_W.
ProjectBegin ==
  /\ pc = "project"
  /\ LET N == IntDiv(Rows(W), 4) - 1
     IN  \/ /\ Rows(theta_prepended) # N + 1
            /\ pc' = (IF build = "debug" THEN "aborted" ELSE "undefined")
            /\ UNCHANGED b_W_dual
         \/ /\ Rows(theta_prepended) = N + 1
            /\ b_W_dual' = MatMul(inverse_map,
                                  Projection_b_W(W, theta_prepended, Rows(inverse_map), junk))
            /\ pc' = "P222"
  /\ UNCHANGED <<envVars, argVars, loopVars, certVars, W, W_dual, pass, W_first,
                 i_diag, W_diag_sum_33>>

\* lines 222-256
OffDiagonal ==
  /\ pc = "P222"
  /\ W_dual' = Projection_off_diagonal(W, b_W_dual, junk)
  /\ pc' = "P257"
  /\ UNCHANGED <<envVars, argVars, loopVars, certVars, W, b_W_dual, pass, W_first,
                 i_diag, W_diag_sum_33>>

\* lines 257-262.  W_dual is on both sides of the assignment, transposed on
\* the right: Eigen's aliasing assertion fails in a debug build.
Symmetrize ==
  /\ pc = "P257"
  /\ \/ /\ build = "debug"
        /\ pc' = "aborted"
        /\ UNCHANGED <<W_dual, i_diag, W_diag_sum_33>>
     \/ /\ build = "release"
        /\ W_dual' = Projection_symmetrize(W_dual, inplace)
        /\ i_diag' = 0
        /\ W_diag_sum_33' = Zero(3, 3)
        /\ pc' = "P263"
  /\ UNCHANGED <<envVars, argVars, loopVars, certVars, W, b_W_dual, pass, W_first>>

\* lines 263-274: one pass of the loop over the diagonal blocks
DiagonalBlock ==
  /\ pc = "P263"
  /\ i_diag < IntDiv(Rows(W), 4)
  /\ LET W_ii == Projection_W_ii(W, W_dual, i_diag, theta_prepended)
     IN  /\ W_dual' = Projection_set_diagonal(W_dual, i_diag, W_ii)
         /\ W_diag_sum_33' = [r \in 0..2 |-> [c \in 0..2 |->
                                 W_diag_sum_33[r][c] + W_ii[r][c]]]
  /\ i_diag' = i_diag + 1
  /\ UNCHANGED <<pc, envVars, argVars, loopVars, certVars, W, b_W_dual, pass, W_first>>

\* lines 275-286
SubtractMean ==
  /\ pc = "P263"
  /\ i_diag >= IntDiv(Rows(W), 4)
  /\ W_dual' = Projection_subtract_mean(W_dual, W_diag_sum_33)
  /\ pc' = "proj_done"
  /\ UNCHANGED <<envVars, argVars, loopVars, certVars, W, b_W_dual, pass, W_first,
                 i_diag, W_diag_sum_33>>

\* the second call, on the output of the first
ProjectAgain ==
  /\ pc = "proj_done"
  /\ TwiceMode
  /\ pass = 1
  /\ W_first' = W_dual
  /\ W' = W_dual
  /\ W_dual' = None
  /\ b_W_dual' = None
  /\ pass' = 2
  /\ pc' = "project"
  /\ UNCHANGED <<envVars, argVars, loopVars, certVars, i_diag, W_diag_sum_33>>

NextProject ==
  \/ ProjectBegin \/ OffDiagonal \/ Symmetrize \/ DiagonalBlock \/ SubtractMean
  \/ ProjectAgain

SpecProject == InitProject /\ [][NextProject]_vars

(* C4: the affine projector is idempotent: for every N >= 2, every         *)
(* theta_prepended of length N+1 with theta_prepended[0] = 1, the A_inv    *)
(* built by getLinearProjection for it and every symmetric W of size       *)
(* 4(N+1), getOptimalDualProjection applied to the output of               *)
(* getOptimalDualProjection(W) yields that output again.                   *)
C4_ProjectorIdempotent ==
  (TwiceMode /\ pass = 2 /\ pc = "proj_done") => W_dual = W_first

(* C6: the initial dual guess is a fixed point of the affine projector:    *)
(* for every valid R, theta, src, dst with N >= 2 the Lambda0 that         *)
(* getLambdaGuess builds as certify calls it is 4(N+1) square and          *)
(* getOptimalDualProjection(Lambda0, theta_prepended, A_inv) is Lambda0.   *)
C6_GuessIsFixedPoint ==
  ~TwiceMode =>
    /\ IsSquare(W, 4 * (Len(src) + 1))
    /\ pc # "project" => (pc = "proj_done" /\ W_dual = W)

-----------------------------------------------------------------------------
(* Properties of certify, under SpecCertify.                               *)

\* src, dst and theta have the same number N >= 2 of columns
ValidInput == Len(src) = Len(dst) /\ Len(theta) = Len(src) /\ Len(src) >= 2

\* the places of certify from which the call goes on
Running == {"certify", "L26", "L30", "L33", "L45", "L53", "L57", "L60", "L63", "loop"}

(* C1: every call of certify on valid input ends in exactly one of the     *)
(* states Certified and Exhausted and returns a result with that status;   *)
(* it ends in Exhausted, with exceeded_maxiters true, when the iteration   *)
(* count reaches max_iterations_; no other terminal state is reachable and *)
(* the call never ends without returning a result.                         *)
C1_TerminalStates ==
  (ValidInput /\ pc \notin Running) =>
    /\ pc \in {"certified", "exhausted"}
    /\ pc = "exhausted" => (exceeded_maxiters /\ iter = max_iterations_)

(* C2: the sub-optimality trajectory holds exactly one gap value for each  *)
(* iteration of the loop: after k iterations suboptim_traj has length k,   *)
(* while the loop runs and when it has ended.                              *)
C2_TrajectoryLength ==
  pc \in {"loop", "no_return"} => Len(suboptim_traj) = iter

(* C3: certify rejects invalid input with an invalid-input error before    *)
(* any of theta_prepended, inverse_map, Q_cost, D_omega, lambda_bar_init   *)
(* is built: whenever src, dst and theta do not all have the same number N *)
(* of columns and whenever N < 2, no construction step is executed.        *)
C3_InvalidInputRejected ==
  ~ValidInput =>
    /\ pc \in {"certify", "invalid_input"}
    /\ theta_prepended = None /\ inverse_map = None /\ Q_cost = None
    /\ D_omega = None /\ lambda_bar_init = None

(* C7: the prepended vector that certify builds from the boolean theta has *)
(* length N+1, entry 0 equal to 1 and, for every i in 1..N, entry i equal  *)
(* to +1 when theta[i-1] is true and to -1 when it is false.               *)
C7_PrependedSigns ==
  theta_prepended # None =>
    /\ DOMAIN theta_prepended = 0..Len(theta)
    /\ theta_prepended[0] = 1
    /\ \A i \in 1..Len(theta) :
         theta_prepended[i] = (IF theta[i] THEN 1 ELSE -1)

(* C8: for N correspondences with blocks B_1..B_N, getLambdaGuess as       *)
(* certify calls it returns a 4(N+1) square matrix whose (0,0) block is    *)
(* B_1 + ... + B_N, whose diagonal block (k,k) is -B_k for k in 1..N and   *)
(* whose other entries are zero; one block is computed for each column of  *)
(* src and dst and no column outside 0..N-1 is read.                       *)
C8_GuessBlockLayout ==
  (ValidInput /\ lambda_bar_init # None) =>
    LET N == Len(src)
        B == [k \in 1..N |->
                LambdaGuess_current_block(R_solution, theta[k], src[k], dst[k], cbar2_)]
        sumB(r, c) == SumTo([k \in 0..(N - 1) |-> B[k + 1][r][c]], N)
    IN  /\ LambdaGuessColumns(theta_prepended) = 0..(N - 1)
        /\ IsSquare(lambda_bar_init, 4 * (N + 1))
        /\ \A r \in 0..(4 * N + 3) : \A c \in 0..(4 * N + 3) :
             lambda_bar_init[r][c] =
               (IF r < 4 /\ c < 4 THEN sumB(r, c)
                ELSE IF r \div 4 = c \div 4 THEN -B[r \div 4][r % 4][c % 4]
                ELSE 0)

====
